---- MODULE Spec2Model ----
(***************************************************************************)
(* Model of the domain logic of src/app3.py (Smart Energy Source           *)
(* Predictor): estimate_wind_power, calculate_sun_position,                *)
(* estimate_solar, ai_decision and get_weather_data.                       *)
(*                                                                         *)
(* Python floats are modelled as exact fixed-point rationals:              *)
(*   wind speed   in 1/SpeedScale m/s                                      *)
(*   irradiance   in 1/IrrScale  W/m^2                                     *)
(*   power        in 1/PowerScale kW                                       *)
(*   angles       in whole degrees, sines in thousandths (table SinTab)    *)
(* so every comparison of the code is decided exactly; the rounding of     *)
(* IEEE doubles is not modelled.                                           *)
(***************************************************************************)
EXTENDS Integers, Sequences, FiniteSets, TLC

VARIABLES
    windPrev,     \* the evaluation of estimate_wind_power before the last one
    windCur,      \* the last evaluation of estimate_wind_power
    solarPrev,    \* the evaluation of estimate_solar before the last one
    solarCur,     \* the last evaluation of estimate_solar
    decPrev,      \* the call of ai_decision before the last one
    decCur,       \* the last call of ai_decision
    weather,      \* what get_weather_data returned in this script run
    pc,           \* where the script run of the dashboard is
    ui,           \* the widget values of this script run
    user_location,    \* st.session_state.user_location
    location,     \* what get_location returned in this script run
    utc_now,      \* the UTC wall clock when the dashboard read the time
    clock_time,   \* the dashboard's current_time
    answers       \* what the requests of this script run were answered

vars == <<windPrev, windCur, solarPrev, solarCur, decPrev, decCur, weather,
          pc, ui, user_location, location, utc_now, clock_time, answers>>
dashVars == <<pc, ui, user_location, location, utc_now, clock_time, answers>>
decVars == <<decPrev, decCur>>
windVars == <<windPrev, windCur>>
solarVars == <<solarPrev, solarCur>>

(***************************************************************************)
(* Fixed-point units.                                                      *)
(***************************************************************************)
\* 0.1 m/s: wind_speed is shown with one decimal and the mock sample is 3.2
SpeedScale == 10
\* 1/400 W/m^2: cloud_factor = 1 - (cloud_cover / 100) * 0.75 = (400 - 3c)/400
IrrScale == 400
\* 15 * (c / (9 * SpeedScale))^3 kW and irradiance * 0.015 kW are both whole
\* multiples of 1/PowerScale kW
PowerScale == 48600 * IrrScale

(***************************************************************************)
(* Bounds of the model.                                                    *)
(***************************************************************************)
\* wind speeds tried: -MaxNegSteps .. MaxSpeedSteps steps of SpeedStep/SpeedScale m/s
MaxNegSteps == 4
MaxSpeedSteps == 56
\* cloud cover tried: -20 .. (MaxCloudSteps * 20 - 20) percent
MaxCloudSteps == 8
\* hours of the day tried: 0 .. MaxHour
MaxHour == 23
\* load_demand tried: 1 .. 1 + 9 * MaxLoadSteps kW
MaxLoadSteps == 1
\* np.random.normal deviates tried: -MaxSigma .. MaxSigma standard deviations
MaxSigma == 3

(***************************************************************************)
(* Program constants.                                                      *)
(***************************************************************************)
CutInSpeed == 3            \* m/s
CutOutSpeed == 25          \* m/s
RatedSpeed == 12           \* m/s
RatedPower == 15           \* kW
ApiKeyConfigured == TRUE   \* OPENWEATHER_API_KEY is set and is not the placeholder
DefaultLat == 29           \* degrees north, the default location's latitude (28.6139)
DefaultLon == 77           \* degrees east, the default location's longitude
NightIrradiance == 10      \* W/m^2, below it solar counts as unavailable
LowSolarIrradiance == 100  \* W/m^2, below it the dawn/dusk rule applies
StrongSolarIrradiance == 200   \* W/m^2, needed to recommend solar by power
DawnHour == 6
DuskHour == 18
DefaultHour == 12          \* the hour assumed when no time is given
MinWindKw == 1             \* kW of wind that beats minimal solar
ArrayWattsPerIrr == 15     \* solar_power = irradiance * 0.015 kW = irradiance * 15 W
SpeedStep == 5             \* the wind slider's step, 0.5 m/s, in 1/SpeedScale m/s

Cube(x) == x * x * x

\* the speeds (1/SpeedScale m/s) the wind model is evaluated at
WindSpeeds == { k * SpeedStep : k \in (0 - MaxNegSteps)..MaxSpeedSteps }

\* 1/PowerScale kW per unit of c^3: RatedPower / ((12 - 3) * SpeedScale)^3 kW
UnitsPerCube == (RatedPower * PowerScale) \div Cube((RatedSpeed - CutInSpeed) * SpeedScale)

(***************************************************************************)
(* estimate_wind_power(wind_speed): speed in 1/SpeedScale m/s, result in   *)
(* 1/PowerScale kW.                                                        *)
(*   15.0 * ((wind_speed - 3) / (12 - 3)) ** 3                             *)
(*     = c^3 * UnitsPerCube,   c = wind_speed - 3 (in 1/SpeedScale m/s)    *)
(***************************************************************************)
estimate_wind_power_no_cutout(wind_speed) ==
    IF wind_speed < CutInSpeed * SpeedScale THEN 0
    ELSE IF wind_speed > RatedSpeed * SpeedScale THEN RatedPower * PowerScale
    ELSE Cube(wind_speed - CutInSpeed * SpeedScale) * UnitsPerCube

estimate_wind_power_square(wind_speed) ==
    IF wind_speed < CutInSpeed * SpeedScale THEN 0
    ELSE IF wind_speed > CutOutSpeed * SpeedScale THEN 0
    ELSE IF wind_speed > RatedSpeed * SpeedScale THEN RatedPower * PowerScale
    ELSE (wind_speed - CutInSpeed * SpeedScale) * (wind_speed - CutInSpeed * SpeedScale)
             * UnitsPerCube

estimate_wind_power(wind_speed) ==
    IF wind_speed < CutInSpeed * SpeedScale THEN 0
    ELSE IF wind_speed > CutOutSpeed * SpeedScale THEN 0
    ELSE IF wind_speed > RatedSpeed * SpeedScale THEN RatedPower * PowerScale
    ELSE Cube(wind_speed - CutInSpeed * SpeedScale) * UnitsPerCube

(***************************************************************************)
(* Trigonometry in whole degrees: SinTab[d + 1] = round(1000 * sin(d deg)) *)
(* for d = 0..90.                                                          *)
(***************************************************************************)
SinTab == <<
    0, 17, 35, 52, 70, 87, 105, 122, 139, 156,
    174, 191, 208, 225, 242, 259, 276, 292, 309, 326,
    342, 358, 375, 391, 407, 423, 438, 454, 469, 485,
    500, 515, 530, 545, 559, 574, 588, 602, 616, 629,
    643, 656, 669, 682, 695, 707, 719, 731, 743, 755,
    766, 777, 788, 799, 809, 819, 829, 839, 848, 857,
    866, 875, 883, 891, 899, 906, 914, 921, 927, 934,
    940, 946, 951, 956, 961, 966, 970, 974, 978, 982,
    985, 988, 990, 993, 995, 996, 998, 999, 999, 1000,
    1000 >>

\* math.sin(math.radians(d)), in thousandths
SinCycle ==
    [ m \in 0..359 |->
        IF m <= 90 THEN SinTab[m + 1]
        ELSE IF m <= 180 THEN SinTab[(180 - m) + 1]
        ELSE IF m <= 270 THEN 0 - SinTab[(m - 180) + 1]
        ELSE 0 - SinTab[(360 - m) + 1] ]

SinD(d) == SinCycle[d % 360]

\* math.cos(math.radians(d)), in thousandths
CosD(d) == SinD(d + 90)

\* math.degrees(math.asin(x / 1000)), rounded away from zero to a whole degree,
\* so that the sign of the elevation is the sign of its sine
\* AsinTab[c]: the first degree whose sine reaches c thousandths (the table
\* does not decrease)
AsinTab == [ c \in 0..1000 |-> Cardinality({ e \in 0..90 : SinTab[e + 1] < c }) ]

AsinD(x) ==
    LET a == IF x < 0 THEN 0 - x ELSE x
        c == IF a > 1000 THEN 1000 ELSE a
    IN IF x < 0 THEN 0 - AsinTab[c] ELSE AsinTab[c]

\* the time handed to estimate_solar and ai_decision: a datetime, or None
NoTime == [present |-> FALSE, yday |-> 1, hour |-> 0, minute |-> 0]
DateTime(yday, hour, minute) ==
    [present |-> TRUE, yday |-> yday, hour |-> hour, minute |-> minute]

(***************************************************************************)
(* calculate_sun_position(lat, lon, dt): the sun's elevation in degrees.   *)
(***************************************************************************)
calculate_sun_position(lat, lon, dt) ==
    LET day_of_year == dt.yday
        \* 23.45 deg * sin(360 * (284 + day_of_year) / 365 deg), to the nearest degree
        declination ==
            (2345 * SinD((360 * (284 + day_of_year)) \div 365) + 50000) \div 100000
        \* 15 * (hour + minute / 60 - 12) degrees
        hour_angle == (15 * (60 * dt.hour + dt.minute) - 15 * 720) \div 60
        sin_elevation ==
            (SinD(declination) * SinD(lat)
               + ((CosD(declination) * CosD(lat)) \div 1000) * CosD(hour_angle)) \div 1000
    IN AsinD(sin_elevation)

(***************************************************************************)
(* estimate_solar(lat, lon, cloud_cover, dt): irradiance in 1/IrrScale     *)
(* W/m^2; cloud_cover in whole percent.                                    *)
(***************************************************************************)
SolarFromElevation_unclamped(sun_elevation, cloud_cover) ==
    LET base_irradiance ==
            IF sun_elevation <= 0 THEN 0 ELSE SinD(sun_elevation)
        cloud_factor == IrrScale - (cloud_cover * 75 * IrrScale) \div (100 * 100)
    IN base_irradiance * cloud_factor

SolarFromElevation_full_attenuation(sun_elevation, cloud_cover) ==
    LET base_irradiance ==
            IF sun_elevation <= 0 THEN 0 ELSE SinD(sun_elevation)
        cloud_factor == IrrScale - (cloud_cover * 100 * IrrScale) \div (100 * 100)
        estimated_irradiance == base_irradiance * cloud_factor
    IN IF estimated_irradiance > 0 THEN estimated_irradiance ELSE 0

SolarFromElevation(sun_elevation, cloud_cover) ==
    LET base_irradiance ==
            IF sun_elevation <= 0 THEN 0 ELSE SinD(sun_elevation)
        \* (1 - (cloud_cover / 100) * 0.75) * IrrScale
        cloud_factor == IrrScale - (cloud_cover * 75 * IrrScale) \div (100 * 100)
        estimated_irradiance == base_irradiance * cloud_factor
    IN IF estimated_irradiance > 0 THEN estimated_irradiance ELSE 0

estimate_solar(lat, lon, cloud_cover, dt) ==
    SolarFromElevation(calculate_sun_position(lat, lon, dt), cloud_cover)

(***************************************************************************)
(* ai_decision(solar_irradiance, wind_speed, load_demand, battery_soc,     *)
(* current_time): <<label, icon, rationale>>.                              *)
(***************************************************************************)
WindNight == <<"Wind Power Recommended", "wind",
               "Solar not available - Night time or low sunlight">>
WindLowSolar == <<"Wind Power Recommended", "wind",
                  "Low solar conditions - Wind more reliable">>
SolarMinimal == <<"Solar Power Recommended", "sun",
                  "Minimal solar available but better than wind">>
SolarStrong == <<"Solar Power Recommended", "sun",
                 "Strong solar conditions detected">>
WindFavorable == <<"Wind Power Recommended", "wind",
                   "Wind conditions favorable over solar">>

\* solar_irradiance * 0.015, in 1/PowerScale kW
solar_power_of(solar_irradiance) ==
    solar_irradiance * ((ArrayWattsPerIrr * PowerScale) \div (1000 * IrrScale))

\* current_time.hour if current_time else 12 (a datetime is always true)
current_hour_midnight(current_time) ==
    IF current_time.present THEN current_time.hour ELSE 0

current_hour_of(current_time) ==
    IF current_time.present THEN current_time.hour ELSE DefaultHour

\* current_hour < 6 or current_hour > 18
is_night(current_hour) == current_hour < DawnHour \/ current_hour > DuskHour

\* elif solar_irradiance < 100
is_low_solar_200(solar_irradiance) ==
    solar_irradiance < StrongSolarIrradiance * IrrScale

is_low_solar(solar_irradiance) ==
    solar_irradiance < LowSolarIrradiance * IrrScale

\* the dawn/dusk rule: wind if wind_power > 1.0, else solar
low_solar_rule_swapped(wind_power) ==
    IF wind_power > MinWindKw * PowerScale THEN SolarMinimal ELSE WindLowSolar

low_solar_rule(wind_power) ==
    IF wind_power > MinWindKw * PowerScale THEN WindLowSolar ELSE SolarMinimal

\* the daytime rule: solar if solar_power >= wind_power and irradiance >= 200
day_rule_power_only(solar_power, wind_power, solar_irradiance) ==
    IF solar_power >= wind_power THEN SolarStrong ELSE WindFavorable

day_rule(solar_power, wind_power, solar_irradiance) ==
    IF solar_power >= wind_power /\ solar_irradiance >= StrongSolarIrradiance * IrrScale
    THEN SolarStrong
    ELSE WindFavorable

ai_decision_battery_aware(solar_irradiance, wind_speed, load_demand, battery_soc, current_time) ==
    LET solar_power == solar_power_of(solar_irradiance)
        wind_power == estimate_wind_power(wind_speed)
        current_hour == current_hour_of(current_time)
    IN  IF is_night(current_hour) \/ solar_irradiance < NightIrradiance * IrrScale
        THEN WindNight
        ELSE IF is_low_solar(solar_irradiance) THEN low_solar_rule(wind_power)
        ELSE IF battery_soc < 20 THEN WindFavorable
        ELSE day_rule(solar_power, wind_power, solar_irradiance)

ai_decision(solar_irradiance, wind_speed, load_demand, battery_soc, current_time) ==
    LET solar_power == solar_power_of(solar_irradiance)
        wind_power == estimate_wind_power(wind_speed)
        current_hour == current_hour_of(current_time)
    IN  IF is_night(current_hour) \/ solar_irradiance < NightIrradiance * IrrScale
        THEN WindNight
        ELSE IF is_low_solar(solar_irradiance) THEN low_solar_rule(wind_power)
        ELSE day_rule(solar_power, wind_power, solar_irradiance)

(***************************************************************************)
(* get_weather_data(lat, lon): the record handed to the dashboard.         *)
(* temperature in 0.1 C, humidity and cloud_cover in percent, wind_speed   *)
(* in 1/SpeedScale m/s, pressure in 0.01 hPa.  np.random.normal(0, sd) is  *)
(* z * sd for a deviate z of whole standard deviations.                    *)
(***************************************************************************)
WeatherRecord(path, temperature, humidity, wind_speed, cloud_cover, description, pressure) ==
    [done |-> TRUE, path |-> path, temperature |-> temperature, humidity |-> humidity,
     wind_speed |-> wind_speed, cloud_cover |-> cloud_cover,
     description |-> description, pressure |-> pressure]

NoWeather ==
    [done |-> FALSE, path |-> "", temperature |-> 0, humidity |-> 0, wind_speed |-> 0,
     cloud_cover |-> 0, description |-> "", pressure |-> 0]

\* the record built from a complete 200 response
live_weather(data) ==
    WeatherRecord("live", data.temp, data.humidity, data.speed, data.all,
                  data.description, data.pressure)

\* "Mock data fallback": the sample around 22.5 C, 65 %, 3.2 m/s, 25 %
mock_weather(zt, zh, zw, zc) ==
    WeatherRecord("mock", 225 + zt * 20, 65 + zh * 10,
                  (32 * SpeedScale) \div 10 + zw * SpeedScale, 25 + zc * 15,
                  "Partly cloudy", 101325)

\* the record returned by the except branch
fallback_weather ==
    WeatherRecord("fallback", 200, 60, 5 * SpeedScale, 30, "Clear sky", 101325)

\* what the request of get_weather_data can come to: a 200 answer with every
\* field, a 200 answer that lacks a field, another status, or an exception
\* raised by requests.get or response.json
WeatherAnswer(kind, data) == [kind |-> kind, data |-> data]

\* an exception that leaves get_weather_data (no record is returned)
RaisedWeather ==
    [done |-> FALSE, path |-> "raised", temperature |-> 0, humidity |-> 0,
     wind_speed |-> 0, cloud_cover |-> 0, description |-> "", pressure |-> 0]

get_weather_data_uncaught(answer, zt, zh, zw, zc) ==
    IF ApiKeyConfigured
    THEN IF answer.kind = "raise" THEN RaisedWeather
         ELSE IF answer.kind = "ok" THEN live_weather(answer.data)
         ELSE IF answer.kind = "missing" THEN RaisedWeather
         ELSE mock_weather(zt, zh, zw, zc)
    ELSE mock_weather(zt, zh, zw, zc)

\* get_weather_data as a whole: try / except Exception around the request
get_weather_data(answer, zt, zh, zw, zc) ==
    IF ApiKeyConfigured
    THEN IF answer.kind = "raise" THEN fallback_weather
         ELSE IF answer.kind = "ok" THEN live_weather(answer.data)
         ELSE IF answer.kind = "missing" THEN fallback_weather
         ELSE mock_weather(zt, zh, zw, zc)
    ELSE mock_weather(zt, zh, zw, zc)

(***************************************************************************)
(* st.session_state.user_location: the key is absent, holds None, or holds *)
(* a dict with 'lat' and 'lon' (degrees, whole in the model).              *)
(***************************************************************************)
AbsentUserLocation == [state |-> "absent", lat |-> 0, lon |-> 0, manual |-> FALSE]
NoUserLocation == [state |-> "none", lat |-> 0, lon |-> 0, manual |-> FALSE]
UserLocation(lat, lon, manual) ==
    [state |-> "coords", lat |-> lat, lon |-> lon, manual |-> manual]

\* 'user_location' in st.session_state and st.session_state.user_location
\* and 'lat' in loc and 'lon' in loc
has_coordinates(loc) == loc.state = "coords"

(***************************************************************************)
(* get_location_from_coordinates and get_location: the location dict, with *)
(* the branch that built it as `source`.                                   *)
(***************************************************************************)
Location(source, lat, lon, city, country, timezone) ==
    [done |-> TRUE, source |-> source, lat |-> lat, lon |-> lon, city |-> city,
     country |-> country, timezone |-> timezone]

NoLocation ==
    [done |-> FALSE, source |-> "", lat |-> 0, lon |-> 0, city |-> "", country |-> "",
     timezone |-> ""]

\* an exception that leaves get_location
RaisedLocation ==
    [done |-> FALSE, source |-> "raised", lat |-> 0, lon |-> 0, city |-> "",
     country |-> "", timezone |-> ""]

\* the Delhi default
DefaultLocation ==
    Location("default", DefaultLat, DefaultLon, "Delhi", "India", "Asia/Kolkata")

\* geocode: the reverse geocoding request found a place ("found"), answered
\* 200 with an empty list ("empty"), another status ("status") or raised
get_location_from_coordinates_geocoded_zone(lat, lon, geocode) ==
    IF geocode.kind = "found"
    THEN Location("coordinates", lat, lon, geocode.city, geocode.country, geocode.timezone)
    ELSE Location("coordinates", lat, lon, "Location", "Unknown", "UTC")

get_location_from_coordinates(lat, lon, geocode) ==
    IF geocode.kind = "found"
    THEN Location("coordinates", lat, lon, geocode.city, geocode.country, "UTC")
    ELSE Location("coordinates", lat, lon, "Location", "Unknown", "UTC")

\* ip: the IP lookup answered 200 with status 'success' and every field
\* ("success"), 200 with another status ("fail"), 200 with status 'success'
\* but a field lacking ("missing"), another HTTP status ("status") or raised
get_location_ip_first(loc, geocode, ip) ==
    IF ip.kind = "success"
    THEN Location("ip", ip.lat, ip.lon, ip.city, ip.country, ip.timezone)
    ELSE IF has_coordinates(loc)
    THEN get_location_from_coordinates(loc.lat, loc.lon, geocode)
    ELSE DefaultLocation

\* loc: st.session_state.user_location
get_location(loc, geocode, ip) ==
    IF has_coordinates(loc)
    THEN get_location_from_coordinates(loc.lat, loc.lon, geocode)
    ELSE IF ip.kind = "success"
    THEN Location("ip", ip.lat, ip.lon, ip.city, ip.country, ip.timezone)
    ELSE DefaultLocation

(***************************************************************************)
(* The dashboard's clock: datetime.now(tz) for the location's timezone.    *)
(***************************************************************************)
\* the zones pytz knows, with their offset from UTC in minutes on the days
\* of the model
KnownZones == {"UTC", "Asia/Kolkata", "America/New_York"}
ZoneOffset(zone) ==
    IF zone = "Asia/Kolkata" THEN 330
    ELSE IF zone = "America/New_York" THEN 0 - 240
    ELSE 0

\* the wall clock `minutes` minutes away from dt
Shift(dt, minutes) ==
    LET total == dt.hour * 60 + dt.minute + minutes
        m == total % 1440
    IN DateTime(dt.yday + (total \div 1440), m \div 60, m % 60)

\* try: tz = pytz.timezone(zone) if zone and zone != 'UTC' else pytz.UTC;
\*      datetime.now(tz)
\* except: datetime.now(), the server's local time
\* zone: location['timezone']; now: the UTC wall clock
dashboard_time(zone, now, server_offset) ==
    IF zone # "" /\ zone # "UTC"
    THEN IF zone \in KnownZones
         THEN Shift(now, ZoneOffset(zone))
         ELSE Shift(now, server_offset)
    ELSE now

(***************************************************************************)
(* The state before any evaluation.                                        *)
(***************************************************************************)
NoWind == [done |-> FALSE, speed |-> 0, power |-> 0]
NoSolar == [done |-> FALSE, lat |-> 0, cloud |-> 0, dt |-> NoTime,
            elevation |-> 0, irradiance |-> 0]

NoDecision == [done |-> FALSE, irradiance |-> 0, wind_speed |-> 0, load_demand |-> 0,
               battery_soc |-> 0, current_time |-> NoTime, result |-> <<"", "", "">>]

WindIdle == windPrev = NoWind /\ windCur = NoWind
SolarIdle == solarPrev = NoSolar /\ solarCur = NoSolar
DecisionIdle == decPrev = NoDecision /\ decCur = NoDecision
WeatherIdle == weather = NoWeather

\* no request has been made yet
NoAnswers == [geocode |-> "", ip |-> "", weather |-> ""]

\* the widgets before a script run has read them
NoUi == [method |-> "", mode |-> "", auto_refresh |-> FALSE, button |-> "none"]

DashboardIdle ==
    /\ pc = "idle"
    /\ ui = NoUi
    /\ user_location = AbsentUserLocation
    /\ location = NoLocation
    /\ utc_now = NoTime
    /\ clock_time = NoTime
    /\ answers = NoAnswers

Init ==
    /\ WindIdle
    /\ SolarIdle
    /\ DecisionIdle
    /\ WeatherIdle
    /\ DashboardIdle

(***************************************************************************)
(* SpecDecision: one script run calls ai_decision once (display_test_model *)
(* without a time, display_real_time_dashboard with one); st.rerun()       *)
(* starts the script again and nothing of the call is kept.                *)
(***************************************************************************)
\* irradiance (1/IrrScale W/m^2): the values around each threshold of the rules
DecisionIrradiances ==
    { w * IrrScale : w \in {0, 5, 10, 50, 100, 150, 200, 300, 1000} }
        \cup { NightIrradiance * IrrScale - 1, LowSolarIrradiance * IrrScale - 1,
               StrongSolarIrradiance * IrrScale - 1 }
\* wind speed (1/SpeedScale m/s): calm, 4.0, the two sides of 1 kW (6.6, 6.7),
\* the two sides of 4.5 kW (9.0, 9.1), rated (12.0, 13.0) and past cut-out
DecisionWinds == {0, 40, 66, 67, 90, 91, 120, 130, 260}
DecisionLoads == {1, 10}
DecisionSocs == {0, 50}
DecisionTimes == {NoTime} \cup { DateTime(172, h, 0) : h \in 0..MaxHour }

Call(irr, wind, load, soc, time) ==
    [done |-> TRUE, irradiance |-> irr, wind_speed |-> wind, load_demand |-> load,
     battery_soc |-> soc, current_time |-> time,
     result |-> ai_decision(irr, wind, load, soc, time)]

AiDecision(irr, wind, load, soc, time) ==
    /\ decCur' = Call(irr, wind, load, soc, time)
    /\ UNCHANGED <<decPrev, windVars, solarVars, weather, dashVars>>

\* st.rerun(): the script starts again; nothing of the run but session
\* state is kept
Rerun ==
    /\ decCur.done \/ weather.done
    /\ decCur' = NoDecision
    /\ weather' = NoWeather
    /\ UNCHANGED <<decPrev, windVars, solarVars, dashVars>>

\* a script run that has not reached its decision yet makes its call
RunScript ==
    /\ ~decCur.done
    /\ \E irr \in DecisionIrradiances, wind \in DecisionWinds, load \in DecisionLoads,
          soc \in DecisionSocs, time \in DecisionTimes :
            AiDecision(irr, wind, load, soc, time)

DecisionNext == RunScript \/ Rerun

SpecDecision == Init /\ [][DecisionNext]_vars

\* the hour the rules use: the given time's hour, 12 when no time is given
HourUsed(call) == IF call.current_time.present THEN call.current_time.hour ELSE 12
InDaylightHours(call) == HourUsed(call) >= 6 /\ HourUsed(call) <= 18
\* irradiance thresholds in 1/IrrScale W/m^2
Wm2(w) == w * IrrScale
\* kW in 1/PowerScale kW
Kw(k) == k * PowerScale

\* C1: the result is Wind Power Recommended with the "solar not available"
\* rationale exactly when hour < 6 or hour > 18 or irradiance < 10, the hour
\* being 12 when no time is given: irradiance < 10 gives it at every hour,
\* and without a time only irradiance < 10 gives it.
NightRuleExact ==
    decCur.done =>
        /\ (decCur.result = WindNight) <=>
               (\/ HourUsed(decCur) < 6
                \/ HourUsed(decCur) > 18
                \/ decCur.irradiance < Wm2(10))
        /\ (decCur.irradiance < Wm2(10) => decCur.result = WindNight)
        /\ (~decCur.current_time.present =>
               ((decCur.result = WindNight) <=> (decCur.irradiance < Wm2(10))))

\* no time given, bright sun: the night rule has not fired
NightRuleExactWitness ==
    /\ decCur.done
    /\ ~decCur.current_time.present
    /\ decCur.irradiance >= Wm2(10)
    /\ decCur.result # WindNight

\* C2: in daylight hours with 10 <= irradiance < 100 the result is Wind ("low
\* solar") if the wind power exceeds 1.0 kW and Solar ("minimal solar")
\* otherwise.
DawnDuskRule ==
    (/\ decCur.done
     /\ InDaylightHours(decCur)
     /\ decCur.irradiance >= Wm2(10)
     /\ decCur.irradiance < Wm2(100))
        => decCur.result =
             IF estimate_wind_power(decCur.wind_speed) > Kw(1)
             THEN WindLowSolar
             ELSE SolarMinimal

\* 6.7 m/s (1.04 kW) at irradiance 50 gave Wind by the dawn/dusk rule
DawnDuskRuleWitness ==
    /\ decCur.done
    /\ InDaylightHours(decCur)
    /\ decCur.irradiance = Wm2(50)
    /\ decCur.wind_speed = 67
    /\ decCur.result = WindLowSolar

\* C3: in daylight hours with irradiance >= 100 the result is Solar ("strong
\* solar") iff irradiance * 0.015 >= wind power and irradiance >= 200, and
\* Wind ("wind favorable") in every other case; [100, 200) always gives Wind.
DayRule ==
    (/\ decCur.done
     /\ InDaylightHours(decCur)
     /\ decCur.irradiance >= Wm2(100))
        => /\ (decCur.result = SolarStrong) <=>
                  (/\ solar_power_of(decCur.irradiance)
                          >= estimate_wind_power(decCur.wind_speed)
                   /\ decCur.irradiance >= Wm2(200))
           /\ decCur.result \in {SolarStrong, WindFavorable}
           /\ (decCur.irradiance < Wm2(200) => decCur.result = WindFavorable)

\* irradiance 150 with no wind power at all still gave Wind
DayRuleWitness ==
    /\ decCur.done
    /\ InDaylightHours(decCur)
    /\ decCur.irradiance = Wm2(150)
    /\ estimate_wind_power(decCur.wind_speed) = 0
    /\ decCur.result = WindFavorable

\* the call of the example: irradiance 150, wind 13 m/s, load 10, soc 50, no time
IsExampleCall(call) ==
    /\ call.done
    /\ call.irradiance = Wm2(150)
    /\ call.wind_speed = 13 * SpeedScale
    /\ call.load_demand = 10
    /\ call.battery_soc = 50
    /\ ~call.current_time.present

\* C9 as stated: the example call returns Wind by the dawn/dusk rule ("low
\* solar, wind more reliable").
ExampleIsLowSolarBranch == IsExampleCall(decCur) => decCur.result = WindLowSolar

\* C9 amended: the example call returns Wind by the last rule ("wind
\* favorable over solar"): irradiance 150 is not below 100, and it is below
\* 200 with solar power 2.25 kW under the wind power 15.0 kW.
ExampleIsWindFavorable ==
    IsExampleCall(decCur) =>
        /\ decCur.result = WindFavorable
        /\ estimate_wind_power(decCur.wind_speed) = Kw(15)
        /\ solar_power_of(decCur.irradiance) * 4 = Kw(9)

ExampleIsWindFavorableWitness == IsExampleCall(decCur) /\ decCur.result[1] = "Wind Power Recommended"

\* C12 as stated: whenever ai_decision returns Solar Power Recommended, the
\* solar power irradiance * 0.015 is at least the wind power; solar is never
\* recommended while the wind power is strictly higher.
SolarOnlyWhenSolarExceedsWind ==
    (decCur.done /\ decCur.result[1] = "Solar Power Recommended")
        => solar_power_of(decCur.irradiance) >= estimate_wind_power(decCur.wind_speed)

(***************************************************************************)
(* SpecReplay: ai_decision is called again and again; the state keeps the  *)
(* last two calls.                                                         *)
(***************************************************************************)
ReplayIrradiances == { w * IrrScale : w \in {5, 50, 150, 300} }
ReplayWinds == {40, 130}
ReplayTimes == {NoTime, DateTime(172, 5, 0), DateTime(172, 12, 0)}
\* load_demand 1 .. 1 + 9 * MaxLoadSteps kW in steps of 9
ReplayLoads == { 1 + 9 * k : k \in 0..MaxLoadSteps }
ReplaySocs == {0, 100}

AiDecisionAgain(irr, wind, load, soc, time) ==
    /\ decPrev' = decCur
    /\ decCur' = Call(irr, wind, load, soc, time)
    /\ UNCHANGED <<windVars, solarVars, weather, dashVars>>

ReplayNext ==
    \E irr \in ReplayIrradiances, wind \in ReplayWinds, load \in ReplayLoads,
       soc \in ReplaySocs, time \in ReplayTimes :
         AiDecisionAgain(irr, wind, load, soc, time)

SpecReplay == Init /\ [][ReplayNext]_vars

\* C4: two calls that agree on irradiance, wind speed and the hour return the
\* same label, icon and rationale, whatever their load_demand and battery_soc.
DecisionIgnoresLoadAndSoc ==
    (/\ decPrev.done /\ decCur.done
     /\ decPrev.irradiance = decCur.irradiance
     /\ decPrev.wind_speed = decCur.wind_speed
     /\ HourUsed(decPrev) = HourUsed(decCur))
        => decPrev.result = decCur.result

\* two calls by the daytime rule that differ in load and in state of charge,
\* one with a time and one without
DecisionIgnoresLoadAndSocWitness ==
    /\ decPrev.done /\ decCur.done
    /\ decPrev.irradiance = decCur.irradiance
    /\ decPrev.wind_speed = decCur.wind_speed
    /\ HourUsed(decPrev) = HourUsed(decCur)
    /\ decPrev.current_time # decCur.current_time
    /\ decPrev.load_demand # decCur.load_demand
    /\ decPrev.battery_soc = 0 /\ decCur.battery_soc = 100
    /\ decCur.result = SolarStrong

(***************************************************************************)
(* SpecWeather: each script run calls get_weather_data once.  The request  *)
(* answers 200 with a complete body, answers 200 with a body that lacks a  *)
(* field, answers another status, or raises.                               *)
(***************************************************************************)
\* what a complete response of the weather service can hold: the service
\* reports humidity and cloudiness in percent and a speed >= 0
ApiHumidities == {0, 40, 100}
ApiSpeeds == {0, 36, 130}
ApiClouds == {0, 75, 100}
ApiData ==
    { [temp |-> 281, humidity |-> h, speed |-> w, all |-> c,
       description |-> "scattered clouds", pressure |-> 100900] :
         h \in ApiHumidities, w \in ApiSpeeds, c \in ApiClouds }
Deviates == (0 - MaxSigma)..MaxSigma

\* status 200 and every field present
WeatherLive(data) ==
    /\ ApiKeyConfigured
    /\ weather' = live_weather(data)
    /\ UNCHANGED <<windVars, solarVars, decVars, dashVars>>

\* no key configured, or a status other than 200: the mock sample
WeatherMock(status, zt, zh, zw, zc) ==
    /\ ~ApiKeyConfigured \/ status # 200
    /\ weather' = mock_weather(zt, zh, zw, zc)
    /\ UNCHANGED <<windVars, solarVars, decVars, dashVars>>

\* requests.get raises, or the 200 body lacks a field (KeyError): the except
\* branch
WeatherFallback ==
    /\ ApiKeyConfigured
    /\ weather' = fallback_weather
    /\ UNCHANGED <<windVars, solarVars, decVars, dashVars>>

GetWeatherData ==
    /\ ~weather.done
    /\ \/ \E data \in ApiData : WeatherLive(data)
       \/ \E status \in {401, 429, 500}, zt \in Deviates, zh \in Deviates,
             zw \in Deviates, zc \in Deviates :
               WeatherMock(status, zt, zh, zw, zc)
       \/ WeatherFallback

WeatherNext == GetWeatherData \/ Rerun

SpecWeather == Init /\ [][WeatherNext]_vars

\* C10 as stated: every record get_weather_data returns has wind_speed >= 0,
\* cloud_cover in [0, 100] and humidity in [0, 100].
WeatherInRange ==
    weather.done =>
        /\ weather.wind_speed >= 0
        /\ weather.cloud_cover >= 0 /\ weather.cloud_cover <= 100
        /\ weather.humidity >= 0 /\ weather.humidity <= 100

(***************************************************************************)
(* SpecSolar: estimate_solar is called again and again; the state keeps    *)
(* the last two evaluations.                                               *)
(***************************************************************************)
\* latitudes (degrees), days of the year and times of day tried
SolarLats == {29, 80}
SolarDays == {172, 355}
SolarTimes == {<<0, 0>>, <<6, 32>>, <<12, 0>>}
\* cloud cover tried: -20 .. (MaxCloudSteps * 20 - 20) percent in steps of 20
SolarClouds == { k * 20 - 20 : k \in 0..MaxCloudSteps }

EstimateSolar(lat, lon, cloud_cover, dt) ==
    /\ solarPrev' = solarCur
    /\ solarCur' = [done |-> TRUE, lat |-> lat, cloud |-> cloud_cover, dt |-> dt,
                    elevation |-> calculate_sun_position(lat, lon, dt),
                    irradiance |-> estimate_solar(lat, lon, cloud_cover, dt)]
    /\ UNCHANGED <<windVars, decVars, weather, dashVars>>

SolarNext ==
    \E lat \in SolarLats, cloud \in SolarClouds, yday \in SolarDays, hm \in SolarTimes :
        EstimateSolar(lat, DefaultLon, cloud, DateTime(yday, hm[1], hm[2]))

SpecSolar == Init /\ [][SolarNext]_vars

\* C7: estimate_solar is >= 0 for every input, cloud cover below 0 or above
\* 100 included, and is exactly 0 whenever the computed sun elevation is <= 0.
SolarNonNegative ==
    solarCur.done =>
        /\ solarCur.irradiance >= 0
        /\ (solarCur.elevation <= 0 => solarCur.irradiance = 0)

\* the sun was up under 140 % cloud cover (a negative cloud factor) and the
\* result was 0; before that the sun was down under -20 % cover
SolarNonNegativeWitness ==
    /\ solarPrev.done /\ solarCur.done
    /\ solarPrev.elevation < 0 /\ solarPrev.cloud < 0 /\ solarPrev.irradiance = 0
    /\ solarCur.elevation > 0 /\ solarCur.cloud > 133 /\ solarCur.irradiance = 0

\* the clear-sky base 1000 * sin(elevation), in 1/IrrScale W/m^2
ClearSky(elevation) == SinD(elevation) * IrrScale

\* C8: for a sun elevation > 0 and cloud cover in [0, 100], estimate_solar is
\* non-increasing in cloud cover, equals the clear-sky base at 0 %, is never
\* below 25 % of the base, and is 25 % of it at 100 %.
SolarCloudMonotone ==
    /\ (/\ solarCur.done
        /\ solarCur.elevation > 0
        /\ solarCur.cloud >= 0 /\ solarCur.cloud <= 100)
          => /\ 4 * solarCur.irradiance >= ClearSky(solarCur.elevation)
             /\ solarCur.irradiance <= ClearSky(solarCur.elevation)
             /\ (solarCur.cloud = 0 => solarCur.irradiance = ClearSky(solarCur.elevation))
             /\ (solarCur.cloud = 100
                   => 4 * solarCur.irradiance = ClearSky(solarCur.elevation))
    /\ (/\ solarPrev.done /\ solarCur.done
        /\ solarPrev.elevation = solarCur.elevation
        /\ solarCur.elevation > 0
        /\ 0 <= solarPrev.cloud
        /\ solarPrev.cloud <= solarCur.cloud
        /\ solarCur.cloud <= 100)
          => solarPrev.irradiance >= solarCur.irradiance

\* the same sun under 0 % and then 100 % cover: the full base, then a quarter
SolarCloudMonotoneWitness ==
    /\ solarPrev.done /\ solarCur.done
    /\ solarPrev.elevation = solarCur.elevation
    /\ solarCur.elevation > 0
    /\ solarPrev.cloud = 0 /\ solarCur.cloud = 100
    /\ solarPrev.irradiance > solarCur.irradiance
    /\ solarCur.irradiance > 0

(***************************************************************************)
(* SpecWind: estimate_wind_power is called again and again, with any speed *)
(* of WindSpeeds; the state keeps the last two evaluations.               *)
(***************************************************************************)
EstimateWindPower(speed) ==
    /\ windPrev' = windCur
    /\ windCur' = [done |-> TRUE, speed |-> speed, power |-> estimate_wind_power(speed)]
    /\ UNCHANGED <<solarVars, decVars, weather, dashVars>>

WindNext == \E speed \in WindSpeeds : EstimateWindPower(speed)

SpecWind == Init /\ [][WindNext]_vars

\* C5: estimate_wind_power is 0 below cut-in (negative speeds included) and
\* above cut-out, is the rated 15.0 kW for 12 < speed <= 25, and lies in
\* [0, 15] kW for every input.
WindCurveBounds ==
    windCur.done =>
        /\ (windCur.speed < CutInSpeed * SpeedScale => windCur.power = 0)
        /\ (windCur.speed > CutOutSpeed * SpeedScale => windCur.power = 0)
        /\ ((windCur.speed > RatedSpeed * SpeedScale
               /\ windCur.speed <= CutOutSpeed * SpeedScale)
               => windCur.power = RatedPower * PowerScale)
        /\ windCur.power >= 0
        /\ windCur.power <= RatedPower * PowerScale

\* a negative speed, a speed above cut-out and a rated speed have been evaluated
WindCurveBoundsWitness ==
    /\ windPrev.done /\ windCur.done
    /\ windPrev.speed < 0 /\ windPrev.power = 0
    /\ windCur.speed > CutOutSpeed * SpeedScale /\ windCur.power = 0

\* C6: on 3 <= speed <= 12 the result is 15 * ((speed - 3) / 9)^3, 0 at 3 and
\* 15.0 at 12, non-decreasing in speed, and no smaller than on the ramp
\* anywhere on the saturated segment (12, 25].
InRamp(s) == CutInSpeed * SpeedScale <= s /\ s <= RatedSpeed * SpeedScale
WindRampCubic ==
    /\ (windCur.done /\ InRamp(windCur.speed)) =>
          /\ windCur.power = Cube(windCur.speed - CutInSpeed * SpeedScale) * UnitsPerCube
          /\ (windCur.speed = CutInSpeed * SpeedScale => windCur.power = 0)
          /\ (windCur.speed = RatedSpeed * SpeedScale
                 => windCur.power = RatedPower * PowerScale)
    /\ (/\ windPrev.done /\ windCur.done
        /\ InRamp(windPrev.speed)
        /\ windPrev.speed <= windCur.speed
        /\ windCur.speed <= CutOutSpeed * SpeedScale)
          => windPrev.power <= windCur.power

\* two evaluations inside the ramp, strictly rising, the second at the rated speed
WindRampCubicWitness ==
    /\ windPrev.done /\ windCur.done
    /\ InRamp(windPrev.speed) /\ windPrev.speed > CutInSpeed * SpeedScale
    /\ windCur.speed = RatedSpeed * SpeedScale
    /\ windPrev.power > 0
    /\ windPrev.power < windCur.power
    /\ windCur.power = RatedPower * PowerScale

(***************************************************************************)
(* Spec: the script runs of the dashboard.  main() initialises the session *)
(* state and calls display_real_time_dashboard, which draws the location   *)
(* selector and the control panel, and then either the test panel or the   *)
(* real-time chain get_location, get_weather_data, datetime.now,           *)
(* estimate_solar, ai_decision.  st.rerun() ends the run at once.          *)
(***************************************************************************)
\* the widget values a run can find; a button is down only in the run its
\* click started, and only the chosen method's button is drawn
Methods == {"browser", "manual", "ip"}
Modes == {"realtime", "test"}
ButtonsOf(method) ==
    IF method = "manual" THEN {"none", "refresh", "use_coordinates"}
    ELSE IF method = "ip" THEN {"none", "refresh", "detect_ip"}
    ELSE {"none", "refresh"}
Uis ==
    { [method |-> m, mode |-> d, auto_refresh |-> a, button |-> b] :
        m \in Methods, d \in Modes, a \in BOOLEAN,
        b \in {"none", "refresh", "use_coordinates", "detect_ip"} }

\* coordinates (whole degrees) typed in, and reported by the browser
ManualCoordinates == {<<29, 77>>, <<51, 0>>}
BrowserCoordinates == {<<40, -74>>}

\* answers of the reverse geocoding request, with the zone the place lies in
GeocodeAnswers ==
    { [kind |-> "found", city |-> "Delhi", country |-> "IN", timezone |-> "Asia/Kolkata"],
      [kind |-> "empty", city |-> "", country |-> "", timezone |-> ""],
      [kind |-> "status", city |-> "", country |-> "", timezone |-> ""],
      [kind |-> "raise", city |-> "", country |-> "", timezone |-> ""] }

\* answers of the IP lookup
IpAnswer(kind, lat, lon, city, country, timezone) ==
    [kind |-> kind, lat |-> lat, lon |-> lon, city |-> city, country |-> country,
     timezone |-> timezone]
IpAnswers ==
    { IpAnswer("success", 41, -74, "New York", "United States", "America/New_York"),
      IpAnswer("success", 52, 0, "London", "United Kingdom", "Europe/Nowhere"),
      IpAnswer("fail", 0, 0, "", "", ""),
      IpAnswer("missing", 41, -74, "", "", ""),
      IpAnswer("status", 0, 0, "", "", ""),
      IpAnswer("raise", 0, 0, "", "", "") }

\* answers of the weather request
NoData ==
    [temp |-> 0, humidity |-> 0, speed |-> 0, all |-> 0, description |-> "",
     pressure |-> 0]
DashboardWeatherAnswers ==
    { WeatherAnswer("ok", d) : d \in { x \in ApiData : x.humidity = 40 } }
        \cup { WeatherAnswer(k, NoData) : k \in {"missing", "status", "raise"} }
DashboardDeviates == {0 - MaxSigma, 0, MaxSigma}

\* the UTC wall clock, and the offset of the server's local time (minutes)
UtcNows == { DateTime(172, h, 0) : h \in {3, 12, 20} }
ServerOffsets == {0, 60}

\* the test panel's sliders
TestIrradiances == { w * IrrScale : w \in {0, 150, 600} }
TestWinds == {8 * SpeedScale, 13 * SpeedScale}
\* load_demand and battery_soc drawn for the prediction
RealtimeLoads == {7, 10}
RealtimeSocs == {10, 65}

\* the run is over: its local values are gone, the session state stays
RunEnds ==
    /\ pc' = "idle"
    /\ ui' = NoUi
    /\ location' = NoLocation
    /\ weather' = NoWeather
    /\ utc_now' = NoTime
    /\ clock_time' = NoTime
    /\ answers' = NoAnswers
    /\ solarCur' = NoSolar
    /\ decCur' = NoDecision
    /\ UNCHANGED <<windVars, solarPrev, decPrev>>

\* a step of the run that only moves on
RunGoes(next) ==
    /\ pc' = next
    /\ UNCHANGED <<ui, user_location, location, weather, utc_now, clock_time, answers,
                   solarCur, decCur, windVars, solarPrev, decPrev>>

\* main(): a run starts with the widget values of the moment
StartRun ==
    /\ pc = "idle"
    /\ \E u \in Uis : u.button \in ButtonsOf(u.method) /\ ui' = u
    /\ user_location' =
          IF user_location.state = "absent" THEN NoUserLocation ELSE user_location
    /\ pc' = "selector"
    /\ UNCHANGED <<location, weather, utc_now, clock_time, answers, solarCur, decCur,
                   windVars, solarPrev, decPrev>>

\* display_location_selector, browser method: the component hands back a
\* position, or nothing
BrowserLocation ==
    /\ pc = "selector" /\ ui.method = "browser"
    /\ \/ \E c \in BrowserCoordinates :
             /\ user_location' = UserLocation(c[1], c[2], FALSE)
             /\ RunEnds
       \/ /\ RunGoes("controls")

\* display_location_selector, manual method: "Use These Coordinates"
ManualLocation ==
    /\ pc = "selector" /\ ui.method = "manual"
    /\ IF ui.button = "use_coordinates"
       THEN \E c \in ManualCoordinates :
               /\ user_location' = UserLocation(c[1], c[2], TRUE)
               /\ RunEnds
       ELSE RunGoes("controls")

\* display_location_selector, IP method: "Detect IP Location"
IpLocation ==
    /\ pc = "selector" /\ ui.method = "ip"
    /\ IF ui.button = "detect_ip"
       THEN /\ user_location' = AbsentUserLocation
            /\ RunEnds
       ELSE RunGoes("controls")

\* "Refresh Data"
RefreshData ==
    /\ pc = "controls" /\ ui.button = "refresh"
    /\ UNCHANGED user_location
    /\ RunEnds

\* "Auto Refresh (5s)": time.sleep(5); st.rerun()
AutoRefresh ==
    /\ pc = "controls" /\ ui.button # "refresh" /\ ui.auto_refresh
    /\ UNCHANGED user_location
    /\ RunEnds

\* the mode decides what is drawn below the control panel
EnterMode ==
    /\ pc = "controls" /\ ui.button # "refresh" /\ ~ui.auto_refresh
    /\ RunGoes(IF ui.mode = "test" THEN "test" ELSE "location")

\* display_test_model: ai_decision on the sliders, without a time
DisplayTestModel ==
    /\ pc = "test"
    /\ \E irr \in TestIrradiances, wind \in TestWinds :
          decCur' = Call(irr, wind, 10, 50, NoTime)
    /\ pc' = "done"
    /\ UNCHANGED <<ui, user_location, location, weather, utc_now, clock_time, answers,
                   solarCur, windVars, solarPrev, decPrev>>

\* location = get_location()
FetchLocation ==
    /\ pc = "location"
    /\ \E geocode \in GeocodeAnswers, ip \in IpAnswers :
          /\ location' = get_location(user_location, geocode, ip)
          /\ answers' = [answers EXCEPT !.geocode = geocode.kind, !.ip = ip.kind]
    /\ pc' = IF location'.source = "raised" THEN "crashed" ELSE "weather"
    /\ UNCHANGED <<ui, user_location, weather, utc_now, clock_time,
                   solarCur, decCur, windVars, solarPrev, decPrev>>

\* weather = get_weather_data(location['lat'], location['lon'])
FetchWeather ==
    /\ pc = "weather"
    /\ \E answer \in DashboardWeatherAnswers, zw \in DashboardDeviates,
          zc \in DashboardDeviates :
            /\ weather' = get_weather_data(answer, 0, 0, zw, zc)
            /\ answers' = [answers EXCEPT !.weather = answer.kind]
    /\ pc' = IF weather'.path = "raised" THEN "crashed" ELSE "clock"
    /\ UNCHANGED <<ui, user_location, location, utc_now, clock_time,
                   solarCur, decCur, windVars, solarPrev, decPrev>>

\* current_time = datetime.now(tz)
ReadClock ==
    /\ pc = "clock"
    /\ \E now \in UtcNows, server_offset \in ServerOffsets :
          /\ utc_now' = now
          /\ clock_time' = dashboard_time(location.timezone, now, server_offset)
    /\ pc' = "solar"
    /\ UNCHANGED <<ui, user_location, location, weather, answers,
                   solarCur, decCur, windVars, solarPrev, decPrev>>

\* solar_irradiance = estimate_solar(lat, lon, weather['cloud_cover'], current_time)
ComputeSolar ==
    /\ pc = "solar"
    /\ solarCur' =
          [done |-> TRUE, lat |-> location.lat, cloud |-> weather.cloud_cover,
           dt |-> clock_time,
           elevation |-> calculate_sun_position(location.lat, location.lon, clock_time),
           irradiance |-> estimate_solar(location.lat, location.lon,
                                         weather.cloud_cover, clock_time)]
    /\ pc' = "predict"
    /\ UNCHANGED <<ui, user_location, location, weather, utc_now, clock_time, answers,
                   decCur, windVars, solarPrev, decPrev>>

\* decision, icon, description = ai_decision(solar_irradiance,
\*     weather['wind_speed'], load_demand, battery_soc, current_time)
Predict ==
    /\ pc = "predict"
    /\ \E load \in RealtimeLoads, soc \in RealtimeSocs :
          decCur' = Call(solarCur.irradiance, weather.wind_speed, load, soc, clock_time)
    /\ pc' = "done"
    /\ UNCHANGED <<ui, user_location, location, weather, utc_now, clock_time, answers,
                   solarCur, windVars, solarPrev, decPrev>>

\* the script has drawn everything; the page waits for the next interaction
EndRun ==
    /\ pc = "done"
    /\ UNCHANGED user_location
    /\ RunEnds

Next ==
    \/ StartRun
    \/ BrowserLocation
    \/ ManualLocation
    \/ IpLocation
    \/ RefreshData
    \/ AutoRefresh
    \/ EnterMode
    \/ DisplayTestModel
    \/ FetchLocation
    \/ FetchWeather
    \/ ReadClock
    \/ ComputeSolar
    \/ Predict
    \/ EndRun

Spec == Init /\ [][Next]_vars

\* the run has got past get_weather_data in real-time mode
PastWeather == pc \in {"clock", "solar", "predict"} \/ (pc = "done" /\ location.done)

\* C11: get_weather_data never lets a fault out: when the request raises,
\* answers a status other than 200 or sends a body that lacks a field, it
\* returns a record with temperature, humidity, wind_speed, cloud_cover,
\* description and pressure, and the run goes on to estimate_solar and
\* ai_decision with that record.
WeatherNeverFaults ==
    /\ pc # "crashed"
    /\ weather.path # "raised"
    /\ PastWeather =>
          /\ weather.done
          /\ {"temperature", "humidity", "wind_speed", "cloud_cover", "description",
              "pressure"} \subseteq DOMAIN weather
          /\ (answers.weather \in {"raise", "missing"} => weather = fallback_weather)
          /\ (answers.weather = "status" => weather.path = "mock")
          /\ (answers.weather = "ok" => weather.path = "live")
    /\ (pc = "clock" => ENABLED ReadClock)
    /\ (pc = "solar" => ENABLED ComputeSolar)
    /\ (pc = "predict" => ENABLED Predict)
    /\ (pc = "done" /\ location.done) =>
          /\ solarCur.done /\ solarCur.cloud = weather.cloud_cover
          /\ decCur.done /\ decCur.wind_speed = weather.wind_speed

\* the request raised and the run still came to its prediction
WeatherNeverFaultsWitness ==
    /\ pc = "done"
    /\ answers.weather = "raise"
    /\ weather = fallback_weather
    /\ solarCur.done
    /\ decCur.done

\* what get_location returned follows the priority order
LocationByPriority ==
    /\ pc # "crashed"
    /\ location.source # "raised"
    /\ location.done =>
          IF user_location.state = "coords"
          THEN /\ location.source = "coordinates"
               /\ location.lat = user_location.lat
               /\ location.lon = user_location.lon
          ELSE IF answers.ip = "success"
          THEN location.source = "ip"
          ELSE /\ location.source = "default"
               /\ location.lat = DefaultLat /\ location.lon = DefaultLon
               /\ location.timezone = "Asia/Kolkata"

\* the session's coordinates are set by the browser component and by "Use
\* These Coordinates", and are removed by "Detect IP Location" only
CoordinatesKept ==
    /\ (user_location.state = "coords" /\ user_location'.state # "coords")
          => (pc = "selector" /\ ui.method = "ip" /\ ui.button = "detect_ip")
    /\ (user_location'.state = "coords" /\ user_location' # user_location)
          => /\ pc = "selector"
             /\ \/ ui.method = "browser"
                \/ ui.method = "manual" /\ ui.button = "use_coordinates"

\* C13: get_location never raises and picks its source in a fixed order:
\* the session's coordinates in every run while the session holds them
\* (until "Detect IP Location" removes them), else the IP lookup's record
\* when the lookup answers 200 with status 'success', else (any exception
\* included) the Delhi default.
LocationPriorityOrder == [](LocationByPriority) /\ [][CoordinatesKept]_vars

\* manual coordinates were returned although the IP lookup would have
\* succeeded
LocationPriorityOrderWitness ==
    /\ location.done
    /\ user_location.state = "coords" /\ user_location.manual
    /\ answers.ip = "success"
    /\ location.source = "coordinates"
    /\ location.lat = user_location.lat

AutoRefreshStillRenders ==
    [][ (/\ ui.auto_refresh
         /\ pc \notin {"idle", "selector"}
         /\ ui.button # "refresh"
         /\ pc' = "idle")
           => decCur.done ]_vars

====
